---- MODULE Spec2Model ----
(***************************************************************************)
(* Trinity scanner: the daily scan pipeline of trinity_strategy.py (the    *)
(* snapshot store, the rolling-window counter, the candidate ledger with   *)
(* its cooloff and the entry-window classifier), the price-history pattern *)
(* check, the rating and the position sizing of stock_analyzer.py, and the *)
(* rating batch of generate_trading_report.py.                             *)
(*                                                                         *)
(* Time.  datetime.now() carries a time of day, while the dates parsed     *)
(* from file names and from the Date column are midnights.  An instant is  *)
(* day * TicksPerDay + tod; tod = 0 is 00:00:00.000000 exactly and every   *)
(* other tod is a later time of that day.                                  *)
(*                                                                         *)
(* Files.  A directory is a function from the date in the file name to the *)
(* rows of the file (a sequence of records); its DOMAIN is the set of      *)
(* files present.                                                          *)
(***************************************************************************)
EXTENDS Integers, Sequences, FiniteSets, TLC

\* ---------------------------------------------------------------- config
TRINITY_WINDOW_DAYS == 24
COOLOFF_DAYS == 7
TRINITY_MIN_COUNT == 3
HIGHS_DAYS_TO_KEEP == 60
TRINITY_DAYS_TO_KEEP == 180
lookback_days == 24
PATTERN_MIN_HIGHS == 3

\* ---------------------------------------------------------------- bounds
MaxRuns == 3
MaxDay == 9
MaxBars == 3

Tickers == {"T", "U"}
Prices == {10, 13}
TimesOfDay == {0, 1}
TicksPerDay == Cardinality(TimesOfDay)

None == -1

VARIABLES
    day,        \* the calendar day of datetime.now()
    tod,        \* its time of day
    highs,      \* data/all_new_highs: date |-> rows [Ticker, Price, Date]
    ledger,     \* data/trinity_candidates: date |-> rows of the flagged tickers
    runs,       \* runs of main so far
    feed,       \* the feed scraped by the last run
    readFail,   \* the read that failed during the last run, NoFail if none did
    suppressed, \* what get_recent_trinity_candidates returned in the last run
    res,        \* df_trinity of the last run
    outcome,    \* how the last run ended, as its caller sees it
    flaggedOn,  \* ticker |-> day of the last run that flagged it, None if none
    ranOn,      \* the day of the last run, None before the first
    actionable, \* actionable_candidates of the last run's e-mail
    excluded,   \* excluded_candidates of the last run's e-mail
    bars,       \* stock_data['history']: the High of each trading day, oldest first
    pattern,    \* what check_trinity_pattern returned for bars
    market,     \* ticker |-> what yfinance holds for it (info and 6 months of history)
    analysis,   \* what the last call of analyze_stock returned
    results,    \* the analyses collected by the last generate_trading_report
    report,     \* the rows of the trading report it wrote, <<>> if it wrote none
    position,   \* a call of calculate_position_size: its arguments and its result
    lookup      \* a call of get_price_at_date: its arguments and its result

scanVars == <<day, tod, highs, ledger, runs, feed, readFail, suppressed, res,
              outcome, flaggedOn, ranOn, actionable, excluded>>

analyzerVars == <<bars, pattern>>

ratingVars == <<market, analysis, results, report, position>>

vars == <<scanVars, analyzerVars, ratingVars, lookup>>

\* ---------------------------------------------------------------- helpers
Min(S) == CHOOSE x \in S : \A y \in S : x <= y

Abs(x) == IF x < 0 THEN -x ELSE x

Midnight(d) == d * TicksPerDay

Instant(d, t) == d * TicksPerDay + t

\* A failing pd.read_csv of a run: the read site (dir), the file, and for the reads
\* made once per candidate the candidate being evaluated.
NoFail == [dir |-> "none", date |-> 0, ticker |-> "none"]

\* pattern before check_trinity_pattern has been called on the history.
NoPattern ==
    [trinity_signal |-> FALSE, new_highs_count |-> 0, new_high_dates |-> <<>>,
     reason |-> "unchecked"]

\* analysis before analyze_stock has been called.
NoAnalysis == [ticker |-> "none"]

\* position before calculate_position_size has returned.
NoSize == [shares |-> None, investment |-> None, risk |-> None]

NoLookup == [ticker |-> "none", target_date |-> None, price |-> None]

\* Nothing of the rating engine has run and no market data is held.
RatingIdle ==
    /\ market = <<>>
    /\ analysis = NoAnalysis
    /\ results = <<>>
    /\ report = <<>>
    /\ position = [entry_price |-> 0, stop_loss |-> 0, max_risk |-> 0, size |-> NoSize]

ReadFails(dir, d, fail) == fail.dir = dir /\ fail.date = d

\* The read of a file of all_files fails inside the call made for ticker at the
\* read site dir ("first_signal": line 79, "price": line 106).
CallReadError(dir, ticker, all_files, fail) ==
    fail.dir = dir /\ fail.ticker = ticker /\ fail.date \in DOMAIN all_files

\* The positions <<file date, row index>> of the rows of pd.concat over the files.
PastRows(all_files) ==
    UNION {{<<d, i>> : i \in 1..Len(all_files[d])} : d \in DOMAIN all_files}

RowAt(all_files, p) == all_files[p[1]][p[2]]

TickersOf(rows) == {rows[i].Ticker : i \in 1..Len(rows)}

Put(store, d, rows) ==
    [x \in (DOMAIN store) \cup {d} |-> IF x = d THEN rows ELSE store[x]]

\* ---------------------------------------------------------------- detect_trinity
WindowRows(all_files, now) ==
    {p \in PastRows(all_files) :
        Midnight(RowAt(all_files, p).Date) >= now - TRINITY_WINDOW_DAYS * TicksPerDay}

WindowCount(all_files, t, now) ==
    Cardinality({p \in WindowRows(all_files, now) : RowAt(all_files, p).Ticker = t})

HighsReadError(all_files, fail) ==
    \E d \in DOMAIN all_files : ReadFails("highs", d, fail)

\* TrinityFlag with the threshold met by an exact count only.
TrinityFlag_ExactCount(all_files, t, now, fail) ==
    IF HighsReadError(all_files, fail) \/ PastRows(all_files) = {}
    THEN FALSE
    ELSE WindowCount(all_files, t, now) = TRINITY_MIN_COUNT

TrinityFlag(all_files, t, now, fail) ==
    IF HighsReadError(all_files, fail) \/ PastRows(all_files) = {}
    THEN FALSE
    ELSE WindowCount(all_files, t, now) >= TRINITY_MIN_COUNT

detect_trinity(all_files, today_df, now, fail) ==
    [i \in 1..Len(today_df) |->
        [Ticker |-> today_df[i].Ticker,
         Price |-> today_df[i].Price,
         Date |-> today_df[i].Date,
         Trinity |-> TrinityFlag(all_files, today_df[i].Ticker, now, fail)]]

\* ---------------------------------------------------------------- first signal
find_first_signal_date(ticker, all_files, fail) ==
    LET dates == {RowAt(all_files, p).Date :
                    p \in {q \in PastRows(all_files) :
                             RowAt(all_files, q).Ticker = ticker}}
    IN  IF \/ HighsReadError(all_files, fail)
           \/ CallReadError("first_signal", ticker, all_files, fail)
           \/ dates = {}
        THEN None
        ELSE Min(dates)

get_price_at_date(ticker, target_date, all_files, fail) ==
    LET holding == {d \in DOMAIN all_files : ticker \in TickersOf(all_files[d])}
    IN  IF holding = {} THEN None
        ELSE LET f == Min(holding)
                 rows == all_files[f]
                 mine == {i \in 1..Len(rows) : rows[i].Ticker = ticker}
                 exact == {i \in mine : rows[i].Date = target_date}
                 diff(i) == Abs(rows[i].Date - target_date)
                 nearest == {i \in mine : \A j \in mine : diff(i) <= diff(j)}
             IN  IF \/ \E d \in DOMAIN all_files : d <= f /\ ReadFails("highs", d, fail)
                    \/ CallReadError("price", ticker, all_files, fail) /\ fail.date <= f
                 THEN None
                 ELSE IF exact # {} THEN rows[Min(exact)].Price
                 ELSE rows[Min(nearest)].Price

\* ---------------------------------------------------------------- the ledger
get_recent_trinity_candidates(trinity_files, now, fail) ==
    {t \in Tickers :
        \E d \in DOMAIN trinity_files :
            /\ Midnight(d) >= now - COOLOFF_DAYS * TicksPerDay
            /\ ~ReadFails("trinity", d, fail)
            /\ t \in TickersOf(trinity_files[d])}

\* ---------------------------------------------------------------- entry window
\* Prices are in cents.  price_move_pct = (current_price - first_price) / first_price
\* is a double, compared with the double literals 0.20, 0.15 and 0.10.  The
\* comparison is the exact one (by cross-multiplying with first_price, which is
\* positive here: a missing or zero first price never reaches the ladder) except
\* where the move is exactly the threshold and the rounding of the subtraction and
\* of the division leaves the quotient above the literal.  FloatAbove lists those
\* <<current, first, percent>> among the prices used here: (1.1 - 1.0) / 1.0 is
\* 0.10000000000000009, while (1.15 - 1.0) / 1.0 and (1.2 - 1.0) / 1.0 are below
\* 0.15 and 0.20.
FloatAbove == {<<110, 100, 10>>}

MoveExceeds(current_price, first_price, pct) ==
    \/ (current_price - first_price) * 100 > pct * first_price
    \/ <<current_price, first_price, pct>> \in FloatAbove

\* EntryLadder testing the price move before the age of the signal.
EntryLadder_MoveFirst(days_since_signal, current_price, first_price) ==
    IF MoveExceeds(current_price, first_price, 20) THEN "EXTENDED_MOVE"
    ELSE IF days_since_signal > 21 THEN "EXPIRED"
    ELSE IF days_since_signal > 14 /\ MoveExceeds(current_price, first_price, 15)
        THEN "LATE_STAGE"
    ELSE IF days_since_signal > 7 /\ MoveExceeds(current_price, first_price, 10)
        THEN "CAUTION"
    ELSE "GOOD_ENTRY"

EntryLadder(days_since_signal, current_price, first_price) ==
    IF days_since_signal > 21 THEN "EXPIRED"
    ELSE IF MoveExceeds(current_price, first_price, 20) THEN "EXTENDED_MOVE"
    ELSE IF days_since_signal > 14 /\ MoveExceeds(current_price, first_price, 15)
        THEN "LATE_STAGE"
    ELSE IF days_since_signal > 7 /\ MoveExceeds(current_price, first_price, 10)
        THEN "CAUTION"
    ELSE "GOOD_ENTRY"

\* EntryStatus leaving the status of a candidate without a first signal date unset.
EntryStatus_NoHistoryUnset(ticker, current_price, all_files, today, fail) ==
    LET first_appearance == find_first_signal_date(ticker, all_files, fail)
        first_price == get_price_at_date(ticker, first_appearance, all_files, fail)
    IN  IF first_appearance = None THEN "N/A"
        ELSE IF first_price = None \/ first_price = 0 THEN "PRICE_ERROR"
        ELSE EntryLadder(today - first_appearance, current_price, first_price)

\* EntryStatus sending a first price of zero on to the ladder.
EntryStatus_ZeroPriceClassified(ticker, current_price, all_files, today, fail) ==
    LET first_appearance == find_first_signal_date(ticker, all_files, fail)
        first_price == get_price_at_date(ticker, first_appearance, all_files, fail)
    IN  IF first_appearance = None THEN "NO_HISTORY"
        ELSE IF first_price = None THEN "PRICE_ERROR"
        ELSE EntryLadder(today - first_appearance, current_price, first_price)

EntryStatus(ticker, current_price, all_files, today, fail) ==
    LET first_appearance == find_first_signal_date(ticker, all_files, fail)
        first_price == get_price_at_date(ticker, first_appearance, all_files, fail)
    IN  IF first_appearance = None THEN "NO_HISTORY"
        ELSE IF first_price = None \/ first_price = 0 THEN "PRICE_ERROR"
        ELSE EntryLadder(today - first_appearance, current_price, first_price)

\* The value pandas leaves in a cell of Days_Since_Signal or Price_Move_Pct that no
\* assignment reached (a row without the column set reads the same way).
NaN == -99999

\* n / d rounded to the nearest integer, a tie to the even one (d > 0).
RoundHalfEven(n, d) ==
    LET q == n \div d
        r == n % d
    IN  IF 2 * r < d THEN q
        ELSE IF 2 * r > d THEN q + 1
        ELSE IF q % 2 = 0 THEN q ELSE q + 1

\* EntryMetrics taking the first appearance from the snapshots inside the counting
\* window only.
EntryMetrics_WindowOnly(ticker, current_price, all_files, today, fail) ==
    LET recent == [d \in {x \in DOMAIN all_files : x >= today - TRINITY_WINDOW_DAYS}
                     |-> all_files[d]]
        first_appearance == find_first_signal_date(ticker, recent, fail)
        first_price == get_price_at_date(ticker, first_appearance, recent, fail)
    IN  IF first_appearance = None \/ first_price = None \/ first_price = 0
        THEN [Days_Since_Signal |-> NaN, Price_Move_Pct |-> NaN]
        ELSE [Days_Since_Signal |-> today - first_appearance,
              Price_Move_Pct |->
                 RoundHalfEven((current_price - first_price) * 10000, first_price)]

\* Lines 216-217 are reached by the candidates that reached the ladder only.
\* Price_Move_Pct is round(price_move_pct * 100, 2), kept in hundredths of a percent.
EntryMetrics(ticker, current_price, all_files, today, fail) ==
    LET first_appearance == find_first_signal_date(ticker, all_files, fail)
        first_price == get_price_at_date(ticker, first_appearance, all_files, fail)
    IN  IF first_appearance = None \/ first_price = None \/ first_price = 0
        THEN [Days_Since_Signal |-> NaN, Price_Move_Pct |-> NaN]
        ELSE [Days_Since_Signal |-> today - first_appearance,
              Price_Move_Pct |->
                 RoundHalfEven((current_price - first_price) * 10000, first_price)]

\* detect_trinity_with_entry_window counting every ticker of today's feed, the
\* recent candidates of the ledger included.
detect_trinity_with_entry_window_NoCooloff(all_files, today_df, trinity_files, today, t, fail) ==
    LET now == Instant(today, t)
        trinity_df == detect_trinity(all_files, today_df, now, fail)
    IN  [i \in 1..Len(trinity_df) |->
            [Ticker |-> trinity_df[i].Ticker,
             Price |-> trinity_df[i].Price,
             Date |-> trinity_df[i].Date,
             Trinity |-> trinity_df[i].Trinity,
             Entry_Status |->
                IF trinity_df[i].Trinity
                THEN EntryStatus(trinity_df[i].Ticker, trinity_df[i].Price,
                                 all_files, today, fail)
                ELSE "N/A",
             Days_Since_Signal |->
                IF trinity_df[i].Trinity
                THEN EntryMetrics(trinity_df[i].Ticker, trinity_df[i].Price,
                                  all_files, today, fail).Days_Since_Signal
                ELSE NaN,
             Price_Move_Pct |->
                IF trinity_df[i].Trinity
                THEN EntryMetrics(trinity_df[i].Ticker, trinity_df[i].Price,
                                  all_files, today, fail).Price_Move_Pct
                ELSE NaN]]

\* detect_trinity_with_entry_window evaluating the entry window of every row, not
\* only of the Trinity candidates.
detect_trinity_with_entry_window_AllRows(all_files, today_df, trinity_files, today, t, fail) ==
    LET now == Instant(today, t)
        recent_candidates == get_recent_trinity_candidates(trinity_files, now, fail)
        Kept(r) == r.Ticker \notin recent_candidates
        trinity_df == detect_trinity(all_files, SelectSeq(today_df, Kept), now, fail)
    IN  [i \in 1..Len(trinity_df) |->
            [Ticker |-> trinity_df[i].Ticker,
             Price |-> trinity_df[i].Price,
             Date |-> trinity_df[i].Date,
             Trinity |-> trinity_df[i].Trinity,
             Entry_Status |->
                EntryStatus(trinity_df[i].Ticker, trinity_df[i].Price,
                            all_files, today, fail),
             Days_Since_Signal |->
                EntryMetrics(trinity_df[i].Ticker, trinity_df[i].Price,
                             all_files, today, fail).Days_Since_Signal,
             Price_Move_Pct |->
                EntryMetrics(trinity_df[i].Ticker, trinity_df[i].Price,
                             all_files, today, fail).Price_Move_Pct]]

detect_trinity_with_entry_window(all_files, today_df, trinity_files, today, t, fail) ==
    LET now == Instant(today, t)
        recent_candidates == get_recent_trinity_candidates(trinity_files, now, fail)
        Kept(r) == r.Ticker \notin recent_candidates
        trinity_df == detect_trinity(all_files, SelectSeq(today_df, Kept), now, fail)
    IN  [i \in 1..Len(trinity_df) |->
            [Ticker |-> trinity_df[i].Ticker,
             Price |-> trinity_df[i].Price,
             Date |-> trinity_df[i].Date,
             Trinity |-> trinity_df[i].Trinity,
             Entry_Status |->
                IF trinity_df[i].Trinity
                THEN EntryStatus(trinity_df[i].Ticker, trinity_df[i].Price,
                                 all_files, today, fail)
                ELSE "N/A",
             Days_Since_Signal |->
                IF trinity_df[i].Trinity
                THEN EntryMetrics(trinity_df[i].Ticker, trinity_df[i].Price,
                                  all_files, today, fail).Days_Since_Signal
                ELSE NaN,
             Price_Move_Pct |->
                IF trinity_df[i].Trinity
                THEN EntryMetrics(trinity_df[i].Ticker, trinity_df[i].Price,
                                  all_files, today, fail).Price_Move_Pct
                ELSE NaN]]

\* cleanup_old_files keeping a folder's files for the cooloff only, whatever
\* days_to_keep says.
cleanup_old_files_CooloffOnly(folder, days_to_keep, now) ==
    [d \in {x \in DOMAIN folder :
              ~(Midnight(x) < now - COOLOFF_DAYS * TicksPerDay)} |-> folder[d]]

\* ---------------------------------------------------------------- cleanup
cleanup_old_files(folder, days_to_keep, now) ==
    [d \in {x \in DOMAIN folder :
              ~(Midnight(x) < now - days_to_keep * TicksPerDay)} |-> folder[d]]

\* ---------------------------------------------------------------- main
IsTrinity(r) == r.Trinity

\* ActionableRows filtering out the EXPIRED rows only.
ActionableRows_ExpiredOnly(df_trinity) ==
    LET Keep(r) == r.Trinity /\ r.Entry_Status \notin {"EXPIRED"}
    IN  SelectSeq(df_trinity, Keep)

ActionableRows(df_trinity) ==
    LET Keep(r) == r.Trinity /\ r.Entry_Status \notin {"EXPIRED", "EXTENDED_MOVE"}
    IN  SelectSeq(df_trinity, Keep)

ExcludedRows(df_trinity) ==
    LET Keep(r) == r.Trinity /\ r.Entry_Status \in {"EXPIRED", "EXTENDED_MOVE"}
    IN  SelectSeq(df_trinity, Keep)

Flagged(result, t) == \E i \in 1..Len(result) : result[i].Ticker = t /\ result[i].Trinity

\* The feeds get_today_highs may return: each listed ticker once, at one price.
FeedOf(S, p) ==
    LET one(t) == <<[Ticker |-> t, Price |-> p]>>
    IN  (IF "T" \in S THEN one("T") ELSE <<>>) \o (IF "U" \in S THEN one("U") ELSE <<>>)

Feeds == {FeedOf(S, p) : S \in (SUBSET Tickers) \ {{}}, p \in {10}}

\* The files a run reads, any one of which pd.read_csv may fail on: every snapshot
\* file, and the candidate files dated inside the cooloff.
Failures(highs_dates, trinity_dates, now) ==
    {[dir |-> "highs", date |-> d, ticker |-> "none"] : d \in highs_dates}
        \cup {[dir |-> "trinity", date |-> d, ticker |-> "none"] :
                 d \in {x \in trinity_dates :
                          Midnight(x) >= now - COOLOFF_DAYS * TicksPerDay}}

\* Main counting on the snapshot files as they were before today's file is written.
Main_CountBeforePersist(f, fail) ==
    /\ runs < MaxRuns
    /\ LET df_all == [i \in 1..Len(f) |->
                        [Ticker |-> f[i].Ticker, Price |-> f[i].Price, Date |-> day]]
           all_highs == Put(highs, day, df_all)
           df_trinity == detect_trinity_with_entry_window(highs, df_all, ledger,
                                                          day, tod, fail)
           candidates == SelectSeq(df_trinity, IsTrinity)
           written == IF candidates = <<>> THEN ledger ELSE Put(ledger, day, candidates)
       IN  /\ highs' = cleanup_old_files(all_highs, HIGHS_DAYS_TO_KEEP, Instant(day, tod))
           /\ ledger' = cleanup_old_files(written, TRINITY_DAYS_TO_KEEP, Instant(day, tod))
           /\ res' = df_trinity
           /\ actionable' = IF candidates = <<>> THEN <<>> ELSE ActionableRows(df_trinity)
           /\ excluded' = IF candidates = <<>> THEN <<>> ELSE ExcludedRows(df_trinity)
           /\ suppressed' = get_recent_trinity_candidates(ledger, Instant(day, tod), fail)
           /\ flaggedOn' = [t \in Tickers |->
                              IF Flagged(df_trinity, t) THEN day ELSE flaggedOn[t]]
    /\ feed' = f
    /\ readFail' = fail
    /\ outcome' = "completed"
    /\ runs' = runs + 1
    /\ ranOn' = day
    /\ UNCHANGED <<day, tod, bars, pattern, ratingVars, lookup>>

Main(f, fail) ==
    /\ runs < MaxRuns
    /\ LET df_all == [i \in 1..Len(f) |->
                        [Ticker |-> f[i].Ticker, Price |-> f[i].Price, Date |-> day]]
           all_highs == Put(highs, day, df_all)
           df_trinity == detect_trinity_with_entry_window(all_highs, df_all, ledger,
                                                          day, tod, fail)
           candidates == SelectSeq(df_trinity, IsTrinity)
           written == IF candidates = <<>> THEN ledger ELSE Put(ledger, day, candidates)
       IN  /\ highs' = cleanup_old_files(all_highs, HIGHS_DAYS_TO_KEEP, Instant(day, tod))
           /\ ledger' = cleanup_old_files(written, TRINITY_DAYS_TO_KEEP, Instant(day, tod))
           /\ res' = df_trinity
           /\ actionable' = IF candidates = <<>> THEN <<>> ELSE ActionableRows(df_trinity)
           /\ excluded' = IF candidates = <<>> THEN <<>> ELSE ExcludedRows(df_trinity)
           /\ suppressed' = get_recent_trinity_candidates(ledger, Instant(day, tod), fail)
           /\ flaggedOn' = [t \in Tickers |->
                              IF Flagged(df_trinity, t) THEN day ELSE flaggedOn[t]]
    /\ feed' = f
    /\ readFail' = fail
    /\ outcome' = "completed"
    /\ runs' = runs + 1
    /\ ranOn' = day
    /\ UNCHANGED <<day, tod, bars, pattern, ratingVars, lookup>>

\* A run in which every file is read.
RunMain == \E f \in Feeds : Main(f, NoFail)

\* A run in which pd.read_csv raises on one file.
RunMainReadFailure ==
    \E f \in Feeds :
        \E fail \in Failures((DOMAIN highs) \cup {day}, DOMAIN ledger,
                              Instant(day, tod)) :
            Main(f, fail)

\* Time passes between runs.
Advance ==
    \E k \in 0..(MaxDay - day) :
        \E t \in TimesOfDay :
            /\ runs < MaxRuns
            /\ k = 0 => t > tod
            /\ day' = day + k
            /\ tod' = t
            /\ UNCHANGED <<highs, ledger, runs, feed, readFail, suppressed, res,
                           outcome, flaggedOn, ranOn, actionable, excluded,
                           bars, pattern, ratingVars, lookup>>

\* The store after two daily runs that listed both tickers: nothing is flagged yet.
SeedRow(t, d) == [Ticker |-> t, Price |-> 10, Date |-> d]

SeedHighs == [d \in {0, 1} |-> <<SeedRow("T", d), SeedRow("U", d)>>]

Init ==
    /\ day = 2
    /\ tod \in TimesOfDay
    /\ highs = SeedHighs
    /\ ledger = <<>>
    /\ runs = 0
    /\ feed = <<>>
    /\ readFail = NoFail
    /\ suppressed = {}
    /\ res = <<>>
    /\ outcome = "idle"
    /\ flaggedOn = [t \in Tickers |-> None]
    /\ ranOn = None
    /\ actionable = <<>>
    /\ excluded = <<>>
    /\ bars = <<>>
    /\ pattern = NoPattern
    /\ RatingIdle
    /\ lookup = NoLookup

Next == RunMain \/ Advance

Spec == Init /\ [][Next]_vars

\* The same pipeline on a disk whose reads may fail.
NextIO == RunMain \/ RunMainReadFailure \/ Advance

SpecIO == Init /\ [][NextIO]_vars

\* ================================================================ the counter alone
\* detect_trinity_with_entry_window applied to a stored history that is built row
\* by row: the snapshot dates lie on both sides of the two ends of the window.
MaxRows == 4

HistoryOffsets == {0, 1, 2, TRINITY_WINDOW_DAYS, TRINITY_WINDOW_DAYS + 1}

TotalRows(all_files) == Cardinality(PastRows(all_files))

AddSnapshot(d, t, p) ==
    /\ TotalRows(highs) < MaxRows
    /\ highs' = Put(highs, d,
                    (IF d \in DOMAIN highs THEN highs[d] ELSE <<>>)
                        \o <<[Ticker |-> t, Price |-> p, Date |-> d]>>)
    /\ res' = <<>>
    /\ suppressed' = {}
    /\ outcome' = "idle"
    /\ actionable' = <<>>
    /\ excluded' = <<>>
    /\ UNCHANGED <<day, tod, ledger, runs, feed, readFail, flaggedOn, ranOn,
                   bars, pattern, ratingVars, lookup>>

\* A snapshot file without rows, as main writes it on a day without new highs.
AddEmptyFile(d) ==
    /\ d \notin DOMAIN highs
    /\ highs' = Put(highs, d, <<>>)
    /\ res' = <<>>
    /\ suppressed' = {}
    /\ outcome' = "idle"
    /\ actionable' = <<>>
    /\ excluded' = <<>>
    /\ UNCHANGED <<day, tod, ledger, runs, feed, readFail, flaggedOn, ranOn,
                   bars, pattern, ratingVars, lookup>>

TodayRows(f, today) ==
    [i \in 1..Len(f) |-> [Ticker |-> f[i].Ticker, Price |-> f[i].Price, Date |-> today]]

Detect ==
    /\ outcome = "idle"
    /\ res' = detect_trinity_with_entry_window(highs, TodayRows(feed, day), ledger,
                                               day, tod, NoFail)
    /\ suppressed' = get_recent_trinity_candidates(ledger, Instant(day, tod), NoFail)
    /\ outcome' = "completed"
    /\ UNCHANGED <<day, tod, highs, ledger, runs, feed, readFail, flaggedOn, ranOn,
                   actionable, excluded, bars, pattern, ratingVars, lookup>>

GrowHistory ==
    \E o \in HistoryOffsets :
        \/ \E t \in Tickers : AddSnapshot(day - o, t, 10)
        \/ AddEmptyFile(day - o)

InitDetect ==
    /\ day = TRINITY_WINDOW_DAYS + 2
    /\ tod \in TimesOfDay
    /\ highs = <<>>
    /\ ledger = <<>>
    /\ runs = 0
    /\ feed \in {FeedOf(Tickers, p) : p \in Prices}
    /\ readFail = NoFail
    /\ suppressed = {}
    /\ res = <<>>
    /\ outcome = "idle"
    /\ flaggedOn = [t \in Tickers |-> None]
    /\ ranOn = None
    /\ actionable = <<>>
    /\ excluded = <<>>
    /\ bars = <<>>
    /\ pattern = NoPattern
    /\ RatingIdle
    /\ lookup = NoLookup

NextDetect == GrowHistory \/ Detect

SpecDetect == InitDetect /\ [][NextDetect]_vars

\* ================================================================ the entry window
\* One run of main on a store that holds the earlier snapshots of both tickers: T
\* was first listed SignalAges days ago (the last of them outside the counting
\* window) at one of FirstPrices, U 3 or 22 days ago at 100, and both were listed
\* yesterday.
SignalAges == {3, 7, 8, 10, 14, 15, 21, 22, TRINITY_WINDOW_DAYS + 1}

FirstPrices == {0, 100}

EntryPrices == {102, 105, 110, 111, 115, 116, 120, 125}

EntryHistory(today, ageT, priceT, ageU) ==
    LET datesT == {today - ageT, today - 1}
        datesU == {today - ageU, today - 1}
    IN  [d \in datesT \cup datesU |->
            (IF d \in datesT
             THEN <<[Ticker |-> "T", Price |-> priceT, Date |-> d]>> ELSE <<>>)
            \o (IF d \in datesU
                THEN <<[Ticker |-> "U", Price |-> 100, Date |-> d]>> ELSE <<>>)]

EntryFeeds == {FeedOf(S, p) : S \in (SUBSET Tickers) \ {{}}, p \in EntryPrices}

\* The reads made once per candidate, any one of which may fail on any snapshot file.
CallFailures(highs_dates) ==
    {[dir |-> site, date |-> d, ticker |-> t] :
        site \in {"first_signal", "price"}, d \in highs_dates, t \in Tickers}

RunMainPriced == outcome = "idle" /\ \E f \in EntryFeeds : Main(f, NoFail)

RunMainCallFailure ==
    /\ outcome = "idle"
    /\ \E f \in EntryFeeds :
          \E fail \in CallFailures((DOMAIN highs) \cup {day}) : Main(f, fail)

InitEntry ==
    /\ day = TRINITY_WINDOW_DAYS + 2
    /\ tod \in TimesOfDay
    /\ highs \in {EntryHistory(day, a, p, b) :
                    a \in SignalAges, p \in FirstPrices, b \in {3, 22}}
    /\ ledger = <<>>
    /\ runs = 0
    /\ feed = <<>>
    /\ readFail = NoFail
    /\ suppressed = {}
    /\ res = <<>>
    /\ outcome = "idle"
    /\ flaggedOn = [t \in Tickers |-> None]
    /\ ranOn = None
    /\ actionable = <<>>
    /\ excluded = <<>>
    /\ bars = <<>>
    /\ pattern = NoPattern
    /\ RatingIdle
    /\ lookup = NoLookup

NextEntry == RunMainPriced \/ RunMainCallFailure

SpecEntry == InitEntry /\ [][NextEntry]_vars

\* ================================================================ stock_analyzer
Max(S) == CHOOSE x \in S : \A y \in S : y <= x

LastRows(s, n) == IF Len(s) <= n THEN s ELSE SubSeq(s, Len(s) - n + 1, Len(s))

\* NewHighRows counting a row that only equals the highest earlier High.
NewHighRows_NotBelow(recent_data) ==
    LET IsNewHigh(k) ==
            k > 1 /\ recent_data[k] >= Max({recent_data[j] : j \in 1..(k - 1)})
    IN  SelectSeq([k \in 1..Len(recent_data) |-> k], IsNewHigh)

\* The rows of recent_data (after the first) whose High exceeds every earlier High
\* of recent_data, in order.
NewHighRows(recent_data) ==
    LET IsNewHigh(k) ==
            k > 1 /\ recent_data[k] > Max({recent_data[j] : j \in 1..(k - 1)})
    IN  SelectSeq([k \in 1..Len(recent_data) |-> k], IsNewHigh)

\* A bar's date is its position in the whole history.
check_trinity_pattern(history) ==
    LET recent_data == LastRows(history, lookback_days)
        new_rows == NewHighRows(recent_data)
        new_highs == [i \in 1..Len(new_rows) |->
                        Len(history) - Len(recent_data) + new_rows[i]]
    IN  IF Len(recent_data) < lookback_days
        THEN [trinity_signal |-> FALSE, new_highs_count |-> 0,
              new_high_dates |-> <<>>, reason |-> "Insufficient data"]
        ELSE [trinity_signal |-> Len(new_highs) >= PATTERN_MIN_HIGHS,
              new_highs_count |-> Len(new_highs),
              new_high_dates |-> new_highs, reason |-> ""]

Highs == {1, 2, 3, 4}

\* A flat stretch of history, two days short of the lookback.
FlatHistory == [i \in 1..(lookback_days - 2) |-> 1]

AppendBar(h) ==
    /\ \/ Len(bars) < MaxBars
       \/ Len(bars) >= Len(FlatHistory) /\ Len(bars) < Len(FlatHistory) + MaxBars
    /\ bars' = Append(bars, h)
    /\ pattern' = NoPattern
    /\ UNCHANGED <<scanVars, ratingVars, lookup>>

NewBar == \E h \in Highs : AppendBar(h)

CheckTrinityPattern ==
    /\ pattern = NoPattern
    /\ pattern' = check_trinity_pattern(bars)
    /\ UNCHANGED <<scanVars, bars, ratingVars, lookup>>

InitAnalyzer ==
    /\ day = 0
    /\ tod = 0
    /\ highs = <<>>
    /\ ledger = <<>>
    /\ runs = 0
    /\ feed = <<>>
    /\ readFail = NoFail
    /\ suppressed = {}
    /\ res = <<>>
    /\ outcome = "idle"
    /\ flaggedOn = [t \in Tickers |-> None]
    /\ ranOn = None
    /\ actionable = <<>>
    /\ excluded = <<>>
    /\ bars \in {<<>>, FlatHistory}
    /\ pattern = NoPattern
    /\ RatingIdle
    /\ lookup = NoLookup

NextAnalyzer == NewBar \/ CheckTrinityPattern

SpecAnalyzer == InitAnalyzer /\ [][NextAnalyzer]_vars

\* ================================================================ the rating engine
\* analyze_stock on what yfinance returns for a ticker.  Prices are whole numbers;
\* a bar of the history is [Close, High, Low, Volume], oldest first.
RECURSIVE SumOver(_, _, _)
SumOver(f, a, b) == IF a > b THEN 0 ELSE f[a] + SumOver(f, a + 1, b)

Closes(df) == [i \in 1..Len(df) |-> df[i].Close]

Volumes(df) == [i \in 1..Len(df) |-> df[i].Volume]

\* get_stock_data returns None when info lacks 'regularMarketPrice' or the history
\* is empty.
HasStockData(stock) == stock.regularMarketPrice # None /\ stock.history # <<>>

\* df['Close'].iloc[-5] and df['Close'].iloc[-20] raise IndexError on a history of
\* fewer than 5 and fewer than 20 rows.
TechnicalRaises(df) == Len(df) < 5 \/ Len(df) < 20

\* technical_analysis where it returns (20 rows or more).  A rolling mean over more
\* rows than the history has is NaN, and every comparison with NaN is False.
technical_analysis(df) ==
    LET n == Len(df)
        current_price == df[n].Close
        sum20 == SumOver(Closes(df), n - 19, n)
        sum50 == SumOver(Closes(df), n - 49, n)
        vol20 == SumOver(Volumes(df), n - 19, n)
        vol5 == SumOver(Volumes(df), n - 4, n)
    IN  [current_price |-> current_price,
         support |-> Min({df[i].Low : i \in (n - 19)..n}),
         resistance |-> Max({df[i].High : i \in (n - 19)..n}),
         volume_surge |-> IF vol20 > 0 THEN vol5 * 20 * 10 > 12 * vol20 * 5 ELSE FALSE,
         above_sma20 |-> current_price * 20 > sum20,
         above_sma50 |-> IF n >= 50 THEN current_price * 50 > sum50 ELSE FALSE]

\* return_potential in whole percent, rounded down; 0 without an analyst target.
fundamental_analysis(stock) ==
    LET analyst_target == stock.targetMeanPrice
        current_price == stock.regularMarketPrice
    IN  [analyst_target |-> analyst_target,
         current_price |-> current_price,
         return_potential |->
            IF analyst_target # 0 /\ current_price # 0
            THEN ((analyst_target - current_price) * 100) \div current_price
            ELSE 0]

\* calculate_position_size rounding the share count up to the next whole share.
calculate_position_size_RoundUp(entry_price, stop_loss, max_risk) ==
    LET risk_per_share == entry_price - stop_loss
        max_shares == (max_risk + risk_per_share - 1) \div risk_per_share
    IN  IF risk_per_share <= 0
        THEN [shares |-> 0, investment |-> 0, risk |-> 0]
        ELSE [shares |-> max_shares,
              investment |-> max_shares * entry_price,
              risk |-> max_shares * risk_per_share]

\* calculate_position_size giving the whole risk budget to one share.
calculate_position_size_NoGuard(entry_price, stop_loss, max_risk) ==
    LET risk_per_share == entry_price - stop_loss
        max_shares == IF risk_per_share <= 0 THEN max_risk ELSE max_risk \div risk_per_share
    IN  [shares |-> max_shares,
         investment |-> max_shares * entry_price,
         risk |-> max_shares * risk_per_share]

calculate_position_size(entry_price, stop_loss, max_risk) ==
    LET risk_per_share == entry_price - stop_loss
        max_shares == max_risk \div risk_per_share
    IN  IF risk_per_share <= 0
        THEN [shares |-> 0, investment |-> 0, risk |-> 0]
        ELSE [shares |-> max_shares,
              investment |-> max_shares * entry_price,
              risk |-> max_shares * risk_per_share]

RatingFactors(technical, fundamental, trinity) ==
    (IF trinity.trinity_signal THEN <<"Trinity pattern detected">> ELSE <<>>)
    \o (IF fundamental.return_potential >= 50
        THEN <<"High return potential">> ELSE <<>>)
    \o (IF technical.volume_surge THEN <<"Volume surge detected">> ELSE <<>>)
    \o (IF technical.above_sma20 /\ technical.above_sma50
        THEN <<"Above key moving averages">> ELSE <<>>)

\* OverallRating asking two factors for any buy rating and four for a strong one.
OverallRating_Stricter(rating_factors) ==
    IF Len(rating_factors) >= 4 THEN "STRONG BUY"
    ELSE IF Len(rating_factors) >= 2 THEN "BUY"
    ELSE IF Len(rating_factors) >= 1 THEN "HOLD"
    ELSE "AVOID"

OverallRating(rating_factors) ==
    IF Len(rating_factors) >= 3 THEN "STRONG BUY"
    ELSE IF Len(rating_factors) >= 2 THEN "BUY"
    ELSE IF Len(rating_factors) >= 1 THEN "HOLD"
    ELSE "AVOID"

\* The analyzers of every script are built with budget 1600 and 10% of it at risk.
budget == 1600
max_risk_percent == 10
max_risk == (budget * max_risk_percent) \div 100

\* stop_loss is support * 0.95; the amounts of position_sizing are kept in
\* hundredths of the price unit so that it stays a whole number.
compile_final_analysis(ticker, technical, fundamental, trinity) ==
    LET rating_factors == RatingFactors(technical, fundamental, trinity)
    IN  [ticker |-> ticker,
         overall_rating |-> OverallRating(rating_factors),
         rating_factors |-> rating_factors,
         technical_analysis |-> technical,
         fundamental_analysis |-> fundamental,
         trinity_analysis |-> trinity,
         position_sizing |->
            [entry_price |-> technical.current_price * 100,
             stop_loss |-> technical.support * 95,
             position_size |->
                calculate_position_size(technical.current_price * 100,
                                        technical.support * 95, max_risk * 100)]]

analyze_stock(ticker, stock) ==
    IF ~HasStockData(stock)
    THEN [error |-> "Could not retrieve data"]
    ELSE IF TechnicalRaises(stock.history)
    THEN [error |-> "Analysis failed"]
    ELSE compile_final_analysis(ticker, technical_analysis(stock.history),
                                fundamental_analysis(stock),
                                check_trinity_pattern([i \in 1..Len(stock.history) |->
                                                         stock.history[i].High]))

IsError(a) == "error" \in DOMAIN a

\* ---------------------------------------------------------------- market data
\* Histories ending at a close of 100: closes and highs flat or rising by one a
\* day, lows five under the close, volume zero, flat, or doubled over the last
\* five days.
History(n, closes, highs_, volume) ==
    [i \in 1..n |->
        [Close |-> IF closes = "rising" THEN 100 - (n - i) ELSE 100,
         High |-> IF highs_ = "rising" THEN 110 - (n - i) ELSE 110,
         Low |-> (IF closes = "rising" THEN 100 - (n - i) ELSE 100) - 5,
         Volume |-> IF volume = "zero" THEN 0
                    ELSE IF volume = "surge" /\ i > n - 5 THEN 2000
                    ELSE 1000]]

HistoryLengths == {0, 4, 19, 20, lookback_days, 50}

Shapes == {"flat", "rising"}

VolumeShapes == {"zero", "flat", "surge"}

\* targetMeanPrice: info.get's default 0 when absent, else 20%, 50%, 100% above 100.
Targets == {0, 120, 150, 200}

Stocks ==
    {[history |-> History(n, c, h, v), regularMarketPrice |-> p, targetMeanPrice |-> g] :
        n \in HistoryLengths, c \in Shapes, h \in Shapes, v \in VolumeShapes,
        p \in {None, 100}, g \in Targets}

\* The second ticker's data: complete, one day short of 20 rows, or not retrievable.
FewStocks ==
    {[history |-> History(n, "rising", "rising", "surge"), regularMarketPrice |-> p,
      targetMeanPrice |-> 200] : n \in {19, 50}, p \in {None, 100}}

\* A row of a candidate file as main writes it.
CandidateRow(t, d) ==
    [Ticker |-> t, Price |-> 100, Date |-> d, Trinity |-> TRUE,
     Entry_Status |-> "GOOD_ENTRY", Days_Since_Signal |-> 2, Price_Move_Pct |-> 0]

\* ---------------------------------------------------------------- the scripts
\* stock_analyzer.main and analyze_individual_stock: one ticker.
AnalyzeStock(t) ==
    /\ analysis' = analyze_stock(t, market[t])
    /\ UNCHANGED <<scanVars, analyzerVars, lookup, market, results, report, position>>

AnalyzeOne == \E t \in Tickers : AnalyzeStock(t)

\* The candidate file written last.
latest_file(trinity_files) == Max(DOMAIN trinity_files)

\* The analyses without an "error" key, in the order of the file's tickers.
BatchResults(rows) ==
    LET analysed == [i \in 1..Len(rows) |->
                        analyze_stock(rows[i].Ticker, market[rows[i].Ticker])]
        Succeeded(a) == ~IsError(a)
    IN  SelectSeq(analysed, Succeeded)

RatingPriority(rating) ==
    CASE rating = "STRONG BUY" -> 1
      [] rating = "BUY" -> 2
      [] rating = "HOLD" -> 3
      [] rating = "AVOID" -> 4
      [] OTHER -> 5

\* list.sort is stable: the rows of one rating keep their order.
SortedByRating(csv_data) ==
    LET OfPriority(k) ==
            LET Has(r) == RatingPriority(r.Rating) = k IN SelectSeq(csv_data, Has)
    IN  OfPriority(1) \o OfPriority(2) \o OfPriority(3) \o OfPriority(4) \o OfPriority(5)

\* analysis.get('Days_Since_Signal', 'N/A'): the placeholder is kept as NaN; no
\* key of that name is set by compile_final_analysis.
generate_csv_report(analyses) ==
    LET csv_data ==
            [i \in 1..Len(analyses) |->
                [Ticker |-> analyses[i].ticker,
                 Rating |-> analyses[i].overall_rating,
                 Trinity_Pattern |->
                    IF analyses[i].trinity_analysis.trinity_signal THEN "Yes" ELSE "No",
                 New_Highs_Count |-> analyses[i].trinity_analysis.new_highs_count,
                 Days_Since_Signal |->
                    IF "Days_Since_Signal" \in DOMAIN analyses[i]
                    THEN analyses[i].Days_Since_Signal ELSE NaN,
                 Shares_Recommended |->
                    analyses[i].position_sizing.position_size.shares]]
        sorted == SortedByRating(csv_data)
    IN  [i \in 1..Len(sorted) |->
            [Rank |-> i,
             Ticker |-> sorted[i].Ticker,
             Rating |-> sorted[i].Rating,
             Trinity_Pattern |-> sorted[i].Trinity_Pattern,
             New_Highs_Count |-> sorted[i].New_Highs_Count,
             Days_Since_Signal |-> sorted[i].Days_Since_Signal,
             Shares_Recommended |-> sorted[i].Shares_Recommended]]

generate_trading_report ==
    /\ DOMAIN ledger # {}
    /\ LET rows == ledger[latest_file(ledger)]
       IN  /\ results' = BatchResults(rows)
           /\ report' = IF BatchResults(rows) = <<>> THEN <<>>
                        ELSE generate_csv_report(BatchResults(rows))
    /\ UNCHANGED <<scanVars, analyzerVars, lookup, market, analysis, position>>

InitRating ==
    /\ day = 1
    /\ tod \in TimesOfDay
    /\ highs = <<>>
    /\ ledger \in {[d \in {0} |-> <<CandidateRow("T", 0)>>],
                   [d \in {0, 1} |-> IF d = 0 THEN <<CandidateRow("U", 0)>>
                                     ELSE <<CandidateRow("T", 1), CandidateRow("U", 1)>>]}
    /\ runs = 0
    /\ feed = <<>>
    /\ readFail = NoFail
    /\ suppressed = {}
    /\ res = <<>>
    /\ outcome = "idle"
    /\ flaggedOn = [t \in Tickers |-> None]
    /\ ranOn = None
    /\ actionable = <<>>
    /\ excluded = <<>>
    /\ bars = <<>>
    /\ pattern = NoPattern
    /\ market \in {[t \in Tickers |-> IF t = "T" THEN s ELSE u] :
                     s \in Stocks, u \in FewStocks}
    /\ analysis = NoAnalysis
    /\ results = <<>>
    /\ report = <<>>
    /\ position = [entry_price |-> 0, stop_loss |-> 0, max_risk |-> 0, size |-> NoSize]
    /\ lookup = NoLookup

NextRating == AnalyzeOne \/ generate_trading_report

SpecRating == InitRating /\ [][NextRating]_vars

\* ================================================================ position sizing
\* calculate_position_size on its own, for entry prices, stops and risk budgets on
\* both sides of each other.
EntryPriceInputs == {1, 90, 100, 101, 1600}

StopLossInputs == {0, 89, 90, 99, 100, 101}

MaxRiskInputs == {0, 1, max_risk, 500}

CalculatePositionSize ==
    /\ position.size = NoSize
    /\ position' = [position EXCEPT
                       !.size = calculate_position_size(position.entry_price,
                                                        position.stop_loss,
                                                        position.max_risk)]
    /\ UNCHANGED <<scanVars, analyzerVars, lookup, market, analysis, results, report>>

InitSizing ==
    /\ day = 0
    /\ tod = 0
    /\ highs = <<>>
    /\ ledger = <<>>
    /\ runs = 0
    /\ feed = <<>>
    /\ readFail = NoFail
    /\ suppressed = {}
    /\ res = <<>>
    /\ outcome = "idle"
    /\ flaggedOn = [t \in Tickers |-> None]
    /\ ranOn = None
    /\ actionable = <<>>
    /\ excluded = <<>>
    /\ bars = <<>>
    /\ pattern = NoPattern
    /\ market = <<>>
    /\ analysis = NoAnalysis
    /\ results = <<>>
    /\ report = <<>>
    /\ position \in [entry_price : EntryPriceInputs, stop_loss : StopLossInputs,
                      max_risk : MaxRiskInputs, size : {NoSize}]
    /\ lookup = NoLookup

NextSizing == CalculatePositionSize

SpecSizing == InitSizing /\ [][NextSizing]_vars

\* ================================================================ the long run
\* Runs of main weeks and months apart, on a store that holds the earlier snapshots
\* of both tickers: the next run comes the next day, after the cooloff, at the end
\* of the counting window, or after the retention of the snapshot files or of the
\* candidate files has passed.
LongAges == {14, 22}

LongPrices == {105, 125}

LongJumps == {1, COOLOFF_DAYS + 1, TRINITY_WINDOW_DAYS, HIGHS_DAYS_TO_KEEP + 1,
              TRINITY_DAYS_TO_KEEP + 1}

LongFeeds == {FeedOf(S, p) : S \in (SUBSET Tickers) \ {{}}, p \in LongPrices}

\* One run a day.
RunMainLater == ranOn # day /\ \E f \in LongFeeds : Main(f, NoFail)

AdvanceFar ==
    \E k \in LongJumps :
        \E t \in TimesOfDay :
            /\ runs < MaxRuns
            /\ ranOn = day
            /\ day' = day + k
            /\ tod' = t
            /\ UNCHANGED <<highs, ledger, runs, feed, readFail, suppressed, res,
                           outcome, flaggedOn, ranOn, actionable, excluded,
                           bars, pattern, ratingVars, lookup>>

InitLong ==
    /\ day = TRINITY_WINDOW_DAYS + 2
    /\ tod \in TimesOfDay
    /\ highs \in {EntryHistory(day, a, 100, 22) : a \in LongAges}
    /\ ledger = <<>>
    /\ runs = 0
    /\ feed = <<>>
    /\ readFail = NoFail
    /\ suppressed = {}
    /\ res = <<>>
    /\ outcome = "idle"
    /\ flaggedOn = [t \in Tickers |-> None]
    /\ ranOn = None
    /\ actionable = <<>>
    /\ excluded = <<>>
    /\ bars = <<>>
    /\ pattern = NoPattern
    /\ RatingIdle
    /\ lookup = NoLookup

NextLong == RunMainLater \/ AdvanceFar

SpecLong == InitLong /\ [][NextLong]_vars

\* ================================================================ the price lookup
\* get_price_at_date on its own: the store is filled as main fills it (a file per
\* day, a ticker at most once in a file, the Date of a row the date of its file),
\* and the price of a ticker is looked up at the date of any of the days.
PriceOffsets == {0, 1, 2, 3}

StoreSnapshot ==
    \E o \in PriceOffsets, t \in Tickers, p \in Prices :
        LET d == day - o
            rows == IF d \in DOMAIN highs THEN highs[d] ELSE <<>>
        IN  /\ TotalRows(highs) < MaxRows
            /\ t \notin TickersOf(rows)
            /\ highs' = Put(highs, d, rows \o <<[Ticker |-> t, Price |-> p, Date |-> d]>>)
            /\ lookup' = NoLookup
            /\ UNCHANGED <<day, tod, ledger, runs, feed, readFail, suppressed, res,
                           outcome, flaggedOn, ranOn, actionable, excluded,
                           analyzerVars, ratingVars>>

GetPriceAtDate ==
    \E t \in Tickers, o \in PriceOffsets :
        /\ lookup = NoLookup
        /\ lookup' = [ticker |-> t,
                      target_date |-> day - o,
                      price |-> get_price_at_date(t, day - o, highs, NoFail)]
        /\ UNCHANGED <<scanVars, analyzerVars, ratingVars>>

InitPrice ==
    /\ day = 3
    /\ tod = 0
    /\ highs = <<>>
    /\ ledger = <<>>
    /\ runs = 0
    /\ feed = <<>>
    /\ readFail = NoFail
    /\ suppressed = {}
    /\ res = <<>>
    /\ outcome = "idle"
    /\ flaggedOn = [t \in Tickers |-> None]
    /\ ranOn = None
    /\ actionable = <<>>
    /\ excluded = <<>>
    /\ bars = <<>>
    /\ pattern = NoPattern
    /\ RatingIdle
    /\ lookup = NoLookup

NextPrice == StoreSnapshot \/ GetPriceAtDate

SpecPrice == InitPrice /\ [][NextPrice]_vars

\* ================================================================ claims
IsRun == runs' = runs + 1

Listed(trinity_files, t) == {d \in DOMAIN trinity_files : t \in TickersOf(trinity_files[d])}

\* C1 (as claimed): in a run that reads every file, a ticker with a ledger record
\* dated d is suppressed when the run's date is in [d, d + COOLOFF_DAYS), and is not
\* suppressed when every record of it is COOLOFF_DAYS or more days old, at whatever
\* time of day the run happens.
C1_SuppressionWindow ==
    [][IsRun =>
        \A t \in Tickers :
            /\ (\E d \in Listed(ledger, t) : d <= day /\ day < d + COOLOFF_DAYS)
                  => t \in suppressed'
            /\ (\A d \in Listed(ledger, t) : day >= d + COOLOFF_DAYS)
                  => t \notin suppressed']_vars

\* C2 (as claimed): two runs that flag the same ticker are at least COOLOFF_DAYS
\* days apart.
C2_OneAlertPerCooloff ==
    [][IsRun =>
        \A t \in Tickers :
            (Flagged(res', t) /\ flaggedOn[t] # None)
                => day - flaggedOn[t] >= COOLOFF_DAYS]_vars

\* C3 (as claimed): a ledger record inside the retention horizon survives every
\* run, and a run leaves every ticker the ledger suppressed before it suppressed
\* after it.
C3_LedgerAppendOnly ==
    [][IsRun =>
        \A t \in Tickers :
            /\ \A d \in Listed(ledger, t) :
                  Midnight(d) >= Instant(day, tod) - TRINITY_DAYS_TO_KEEP * TicksPerDay
                      => d \in Listed(ledger', t)
            /\ t \in get_recent_trinity_candidates(ledger, Instant(day, tod), NoFail)
                  => t \in get_recent_trinity_candidates(ledger', Instant(day, tod),
                                                        NoFail)]_vars

StatusOf(result, t) ==
    {<<result[i].Trinity, result[i].Entry_Status>> :
        i \in {j \in 1..Len(result) : result[j].Ticker = t}}

\* C4 (as claimed): a second run on the same day with the same feed gives every
\* ticker the Trinity flag and the Entry_Status the first run gave it, and the
\* day's ledger file lists no ticker twice.
C4_IdempotentRerun ==
    [][(IsRun /\ ranOn = day /\ feed' = feed) =>
        /\ \A t \in Tickers : StatusOf(res', t) = StatusOf(res, t)
        /\ day \in DOMAIN ledger' =>
              \A i, j \in 1..Len(ledger'[day]) :
                  ledger'[day][i].Ticker = ledger'[day][j].Ticker => i = j]_vars

\* C5 (as claimed): a run in which the read of a candidate file or of a snapshot
\* file fails ends with the error surfaced to its caller.
C5_ReadFailureIsFatal == (runs > 0 /\ readFail # NoFail) => outcome = "error"

\* ---------------------------------------------------------------- the counter
DatesInWindow(all_files, t, now) ==
    {RowAt(all_files, p).Date :
        p \in {q \in WindowRows(all_files, now) : RowAt(all_files, q).Ticker = t}}

\* C6 (as claimed): a ticker of today's feed is flagged exactly when it has a
\* snapshot on TRINITY_MIN_COUNT or more distinct dates of the window, so a second
\* row for the same ticker and date changes nothing.
C6_NoDoubleCount ==
    outcome = "completed" =>
        \A i \in 1..Len(res) :
            res[i].Trinity <=>
                Cardinality(DatesInWindow(highs, res[i].Ticker, Instant(day, tod)))
                    >= TRINITY_MIN_COUNT

\* C7: for a fixed date and time of the evaluation, adding snapshots to the history
\* never lowers a ticker's count in the window and never takes the Trinity flag
\* from a ticker that had it.
C7_CountMonotone ==
    [][(highs' # highs /\ day' = day /\ tod' = tod) =>
        \A t \in Tickers :
            /\ WindowCount(highs', t, Instant(day, tod))
                  >= WindowCount(highs, t, Instant(day, tod))
            /\ TrinityFlag(highs, t, Instant(day, tod), NoFail)
                  => TrinityFlag(highs', t, Instant(day, tod), NoFail)]_vars

\* C7 witness: a flagged ticker whose count grew past the threshold.
C7_Witness ==
    /\ outcome = "completed"
    /\ Flagged(res, "T")
    /\ WindowCount(highs, "T", Instant(day, tod)) > TRINITY_MIN_COUNT

ClosedWindowCount(all_files, t, today) ==
    Cardinality({p \in PastRows(all_files) :
                    /\ RowAt(all_files, p).Ticker = t
                    /\ today - TRINITY_WINDOW_DAYS <= RowAt(all_files, p).Date
                    /\ RowAt(all_files, p).Date <= today})

\* C8 (as claimed): the rows counted are those dated in the closed interval
\* [today - TRINITY_WINDOW_DAYS, today], at whatever time of day the run happens.
C8_ClosedWindow ==
    outcome = "completed" =>
        \A i \in 1..Len(res) :
            res[i].Trinity <=>
                ClosedWindowCount(highs, res[i].Ticker, day) >= TRINITY_MIN_COUNT

\* C9: on a history without rows (no files, or only empty files) the detection
\* completes, returns every ticker of today's feed with Trinity = False, and every
\* row gets Entry_Status 'N/A'.
C9_EmptyHistory ==
    (outcome # "idle" /\ PastRows(highs) = {}) =>
        /\ outcome = "completed"
        /\ Len(res) = Len(feed)
        /\ \A i \in 1..Len(res) :
              /\ res[i].Ticker = feed[i].Ticker
              /\ ~res[i].Trinity
              /\ res[i].Entry_Status = "N/A"

\* C9 witness: a detection over empty snapshot files only.
C9_Witness ==
    /\ outcome = "completed"
    /\ DOMAIN highs # {}
    /\ PastRows(highs) = {}
    /\ Len(res) = Cardinality(Tickers)

\* ---------------------------------------------------------------- short histories
\* C10 (as claimed): on fewer than lookback_days rows of price history
\* check_trinity_pattern still counts the new highs of the rows present.
C10_ShortHistoryCounted ==
    (pattern # NoPattern /\ Len(bars) < lookback_days) =>
        pattern.new_highs_count = Len(NewHighRows(bars))

\* ---------------------------------------------------------------- the entry ladder
\* The earliest snapshot date of ticker t in the store, and its price there.
FirstSeen(all_files, t) == Min({d \in DOMAIN all_files : t \in TickersOf(all_files[d])})

FirstSeenPrice(all_files, t) ==
    LET rows == all_files[FirstSeen(all_files, t)]
    IN  rows[Min({i \in 1..Len(rows) : rows[i].Ticker = t})].Price

\* The ladder over days and the exact move (current - first) / first (first > 0).
ClaimedLadder(days, current, first) ==
    IF days > 21 THEN "EXPIRED"
    ELSE IF 100 * (current - first) > 20 * first THEN "EXTENDED_MOVE"
    ELSE IF days > 14 /\ 100 * (current - first) > 15 * first THEN "LATE_STAGE"
    ELSE IF days > 7 /\ 100 * (current - first) > 10 * first THEN "CAUTION"
    ELSE "GOOD_ENTRY"

\* C11 (as claimed): every Trinity candidate with a usable first price gets the
\* Entry_Status of the first matching rule of the ladder EXPIRED (days > 21),
\* EXTENDED_MOVE (move > 0.20), LATE_STAGE (days > 14 and move > 0.15), CAUTION
\* (days > 7 and move > 0.10), GOOD_ENTRY, every comparison strict, so that a move
\* of exactly 0.20, 0.15 or 0.10 falls through; days and move are taken from the
\* ticker's earliest snapshot in the store.
C11_EntryLadder ==
    outcome = "completed" =>
        \A i \in 1..Len(res) :
            (res[i].Trinity /\ res[i].Entry_Status \notin {"NO_HISTORY", "PRICE_ERROR"})
                => res[i].Entry_Status =
                      ClaimedLadder(day - FirstSeen(highs, res[i].Ticker), res[i].Price,
                                    FirstSeenPrice(highs, res[i].Ticker))

\* ---------------------------------------------------------------- the e-mail sets
RowsOf(df) == {df[i] : i \in 1..Len(df)}

\* C12: after a run the actionable set is exactly the Trinity rows whose
\* Entry_Status is neither EXPIRED nor EXTENDED_MOVE, the excluded set is exactly
\* the Trinity rows whose status is one of the two, the sets are disjoint and
\* together they hold every Trinity row (NO_HISTORY and PRICE_ERROR rows are
\* actionable).
C12_ActionablePartition ==
    outcome = "completed" =>
        LET trinity == {r \in RowsOf(res) : r.Trinity}
            closed == {"EXPIRED", "EXTENDED_MOVE"}
        IN  /\ RowsOf(actionable) = {r \in trinity : r.Entry_Status \notin closed}
            /\ RowsOf(excluded) = {r \in trinity : r.Entry_Status \in closed}
            /\ RowsOf(actionable) \cap RowsOf(excluded) = {}
            /\ RowsOf(actionable) \cup RowsOf(excluded) = trinity
            /\ \A r \in trinity :
                  r.Entry_Status \in {"NO_HISTORY", "PRICE_ERROR"}
                      => r \in RowsOf(actionable)

\* C12 witness: a run with a PRICE_ERROR candidate in the actionable set and
\* another candidate in the excluded set.
C12_Witness ==
    /\ outcome = "completed"
    /\ \E r \in RowsOf(actionable) : r.Entry_Status = "PRICE_ERROR"
    /\ excluded # <<>>

\* ---------------------------------------------------------------- the rating
\* The four factors of an analysis, and how many of them are true.
FactorsOf(a) ==
    <<a.trinity_analysis.trinity_signal,
      a.fundamental_analysis.return_potential >= 50,
      a.technical_analysis.volume_surge,
      a.technical_analysis.above_sma20 /\ a.technical_analysis.above_sma50>>

TrueFactors(a) == Cardinality({k \in 1..4 : FactorsOf(a)[k]})

\* C13: the overall rating of an analysis depends on the number of true factors
\* only (Trinity signal, return potential >= 50, volume surge, above both moving
\* averages): three or four give STRONG BUY, two BUY, one HOLD, none AVOID, so
\* the rating is the same under every permutation of the factor values.
C13_RatingByCount ==
    "overall_rating" \in DOMAIN analysis =>
        analysis.overall_rating =
            CASE TrueFactors(analysis) >= 3 -> "STRONG BUY"
              [] TrueFactors(analysis) = 2 -> "BUY"
              [] TrueFactors(analysis) = 1 -> "HOLD"
              [] OTHER -> "AVOID"

\* C13 witness: three true factors, the Trinity signal not among them, rated
\* STRONG BUY.
C13_Witness ==
    /\ "overall_rating" \in DOMAIN analysis
    /\ FactorsOf(analysis) = <<FALSE, TRUE, TRUE, TRUE>>
    /\ analysis.overall_rating = "STRONG BUY"

\* ---------------------------------------------------------------- missing inputs
\* C14 (as claimed): for a ticker whose data was retrieved, analyze_stock returns a
\* rating and no error result whatever input is missing, and the factor of a
\* missing input is false: no analyst target, fewer than 20 or 50 rows of history,
\* zero average volume.
C14_MissingInputIsFalseFactor ==
    [][\A t \in Tickers :
        (AnalyzeStock(t) /\ HasStockData(market[t])) =>
            /\ ~IsError(analysis')
            /\ "overall_rating" \in DOMAIN analysis'
            /\ market[t].targetMeanPrice = 0 => ~FactorsOf(analysis')[2]
            /\ (\A i \in 1..Len(market[t].history) : market[t].history[i].Volume = 0)
                  => ~FactorsOf(analysis')[3]
            /\ Len(market[t].history) < 50 => ~FactorsOf(analysis')[4]]_vars

\* ---------------------------------------------------------------- position sizing
\* C15: calculate_position_size returns shares, investment and risk of 0 whenever
\* entry_price <= stop_loss; the share count is never negative and never more than
\* the risk budget pays for (shares * risk per share <= max_risk); for an entry
\* of 100, a stop of 90 and a budget of 500 it returns 50 shares, 5000 and 500.
C15_PositionSizeSafe ==
    position.size # NoSize =>
        /\ position.entry_price <= position.stop_loss
              => position.size = [shares |-> 0, investment |-> 0, risk |-> 0]
        /\ position.size.shares >= 0
        /\ position.entry_price > position.stop_loss
              => position.size.shares * (position.entry_price - position.stop_loss)
                    <= position.max_risk
        /\ (position.entry_price = 100 /\ position.stop_loss = 90
                /\ position.max_risk = 500)
              => position.size = [shares |-> 50, investment |-> 5000, risk |-> 500]

\* C15 witness: a call with the stop above the entry and a positive budget has
\* returned zeros.
C15_Witness ==
    /\ position.entry_price = 100
    /\ position.stop_loss = 101
    /\ position.max_risk = 500
    /\ position.size = [shares |-> 0, investment |-> 0, risk |-> 0]

\* ---------------------------------------------------------------- the cooloff
\* C16 (as claimed): in a run that reads every file, a ticker is suppressed exactly
\* when some candidate file of the ledger, the latest or an earlier one, lists it
\* under a date d >= today - COOLOFF_DAYS.
C16_SuppressedIffRecent ==
    [][IsRun =>
        \A t \in Tickers :
            t \in suppressed' <=>
                \E d \in Listed(ledger, t) : d >= day - COOLOFF_DAYS]_vars

\* ---------------------------------------------------------------- failing candidates
\* The store and the feed without the rows of the tickers in S.
WithoutTickers(all_files, S) ==
    LET Other(r) == r.Ticker \notin S
    IN  [d \in DOMAIN all_files |-> SelectSeq(all_files[d], Other)]

FeedWithout(f, S) ==
    LET Other(r) == r.Ticker \notin S
    IN  SelectSeq(f, Other)

\* C17: in a run of main, whichever read made for a candidate fails, a candidate
\* whose first signal date is not found gets NO_HISTORY, one whose first price is
\* missing or zero gets PRICE_ERROR, neither gets days or move metrics, the run
\* completes with a row for every ticker of the feed that is not suppressed, and
\* every other candidate gets the row it gets in a run without the failing tickers.
C17_FailingCandidateIsolated ==
    [][(outcome = "idle" /\ IsRun) =>
        LET fail == readFail'
            failing == {r.Ticker : r \in {x \in RowsOf(res') :
                            x.Entry_Status \in {"NO_HISTORY", "PRICE_ERROR"}}}
            clean == detect_trinity_with_entry_window(
                         WithoutTickers(highs', failing),
                         TodayRows(FeedWithout(feed', failing), day),
                         ledger, day, tod, NoFail)
        IN  /\ outcome' = "completed"
            /\ TickersOf(res') = TickersOf(feed') \ suppressed'
            /\ \A r \in RowsOf(res') :
                  r.Trinity =>
                    LET first == find_first_signal_date(r.Ticker, highs', fail)
                        price == get_price_at_date(r.Ticker, first, highs', fail)
                    IN  /\ first = None => r.Entry_Status = "NO_HISTORY"
                        /\ (first # None /\ (price = None \/ price = 0))
                              => r.Entry_Status = "PRICE_ERROR"
                        /\ r.Ticker \in failing
                              => /\ first = None \/ price = None \/ price = 0
                                 /\ r.Days_Since_Signal = NaN
                                 /\ r.Price_Move_Pct = NaN
                        /\ r.Ticker \notin failing => r \in RowsOf(clean)]_vars

\* C17 witness: a run in which one candidate got NO_HISTORY and the other one was
\* classified by the ladder.
C17_Witness ==
    /\ outcome = "completed"
    /\ \E r \in RowsOf(res) : r.Entry_Status = "NO_HISTORY"
    /\ \E r \in RowsOf(res) : r.Entry_Status \in {"GOOD_ENTRY", "CAUTION", "LATE_STAGE"}

\* ---------------------------------------------------------------- the rating batch
\* C18 (as claimed): every ticker of the candidate file handed to the rating batch
\* has a row in the trading report, also a ticker for which analyze_stock returned
\* an error.
C18_NoTickerOmitted ==
    [][generate_trading_report =>
        TickersOf(ledger[latest_file(ledger)]) \subseteq TickersOf(report')]_vars

\* C19 (as claimed): for every ticker of the candidate file that the batch rated,
\* the trinity_signal of its analysis is true exactly when the pipeline flagged the
\* ticker in that file.
C19_TrinityFactorIsPipelineSignal ==
    [][generate_trading_report =>
        \A i \in 1..Len(results') :
            results'[i].trinity_analysis.trinity_signal
                <=> Flagged(ledger[latest_file(ledger)], results'[i].ticker)]_vars

\* ---------------------------------------------------------------- the output contract
\* C20 (as claimed): every row of the candidate file written by main has its
\* Entry_Status, its Days_Since_Signal and its Price_Move_Pct set, the NO_HISTORY
\* and PRICE_ERROR rows included.
C20_CandidateFieldsSet ==
    outcome = "completed" =>
        \A d \in DOMAIN ledger :
            \A r \in RowsOf(ledger[d]) :
                /\ r.Entry_Status # "N/A"
                /\ r.Days_Since_Signal # NaN
                /\ r.Price_Move_Pct # NaN

ClaimedPriceDate(all_files, t, target_date) ==
    LET dates == Listed(all_files, t)
        nearest == {d \in dates :
                      \A e \in dates : Abs(d - target_date) <= Abs(e - target_date)}
    IN  IF target_date \in dates THEN target_date ELSE Min(nearest)

\* C22 (as claimed): get_price_at_date returns the price of the ticker's snapshot
\* dated target_date whenever the stored history holds one, in whichever file, and
\* otherwise the price of its snapshot nearest to target_date over the whole
\* history, the earlier one when two are equally near.
C22_PriceAtDate ==
    (lookup # NoLookup /\ Listed(highs, lookup.ticker) # {}) =>
        LET rows == highs[ClaimedPriceDate(highs, lookup.ticker, lookup.target_date)]
        IN  \E i \in 1..Len(rows) :
                rows[i].Ticker = lookup.ticker /\ rows[i].Price = lookup.price

\* ---------------------------------------------------------------- the snapshot store
\* C23 (as claimed): the snapshot store is append-only: every snapshot (ticker,
\* price, date) that is stored before a run of main is still stored with the same
\* price after it, a second run on the same day with another feed included, unless
\* the file is older than the retention of HIGHS_DAYS_TO_KEEP days.
C23_SnapshotsAppendOnly ==
    [][IsRun =>
        \A d \in DOMAIN highs :
            ~(Midnight(d) < Instant(day, tod) - HIGHS_DAYS_TO_KEEP * TicksPerDay)
                => /\ d \in DOMAIN highs'
                   /\ RowsOf(highs[d]) \subseteq RowsOf(highs'[d])]_vars

\* ---------------------------------------------------------------- the ledger write
\* The tickers with a record in a candidate file dated inside the cooloff.
RecentlyRecorded(trinity_files, now) ==
    {t \in Tickers :
        \E d \in Listed(trinity_files, t) :
            Midnight(d) >= now - COOLOFF_DAYS * TicksPerDay}

\* C24: a run reads the suppressed set from the ledger as it was before the run,
\* and the candidate file it writes holds one record for each ticker it flagged as
\* Trinity and for no other; the flagged tickers are outside that suppressed set,
\* they are recorded whatever their Entry_Status, and a run that flags no ticker
\* writes no record: every candidate file it leaves is as it was.
C24_LedgerWrite ==
    [][IsRun =>
        LET read == RecentlyRecorded(ledger, Instant(day, tod))
            flagged == {t \in Tickers : Flagged(res', t)}
        IN  /\ suppressed' = read
            /\ flagged \cap read = {}
            /\ flagged = {} =>
                  \A d \in DOMAIN ledger' : d \in DOMAIN ledger /\ ledger'[d] = ledger[d]
            /\ flagged # {} =>
                  /\ day \in DOMAIN ledger'
                  /\ TickersOf(ledger'[day]) = flagged
                  /\ Len(ledger'[day]) = Cardinality(flagged)
                  /\ RowsOf(ledger'[day]) \subseteq RowsOf(res')
                  /\ \A d \in (DOMAIN ledger') \ {day} :
                        d \in DOMAIN ledger /\ ledger'[d] = ledger[d]]_vars

\* C24 witness: a run whose feed listed a suppressed ticker and a ticker it
\* classified EXPIRED has written a record for the second and none for the first.
C24_Witness ==
    /\ outcome = "completed"
    /\ ranOn = day
    /\ \E s \in suppressed \cap TickersOf(feed) :
          /\ day \in DOMAIN ledger
          /\ s \notin TickersOf(ledger[day])
          /\ \E r \in RowsOf(ledger[day]) : r.Entry_Status = "EXPIRED"

\* ---------------------------------------------------------------- persist, then count
\* C25: a run stores today's snapshot of every ticker of today's feed, the
\* suppressed ones included, and counts afterwards: a ticker is flagged Trinity
\* exactly when it is in today's feed, is not suppressed, and has at least
\* TRINITY_MIN_COUNT snapshots in the counting window of the store that holds
\* today's file.  A ticker that is not in the feed or is suppressed is not flagged.
C25_PersistThenCount ==
    [][IsRun =>
        LET now == Instant(day, tod)
            read == RecentlyRecorded(ledger, now)
        IN  /\ day \in DOMAIN highs'
            /\ Len(highs'[day]) = Len(feed')
            /\ \A i \in 1..Len(feed') :
                  highs'[day][i] = [Ticker |-> feed'[i].Ticker,
                                    Price |-> feed'[i].Price, Date |-> day]
            /\ \A t \in Tickers :
                  Flagged(res', t) <=>
                      /\ t \in TickersOf(feed')
                      /\ t \notin read
                      /\ WindowCount(highs', t, now) >= TRINITY_MIN_COUNT]_vars

\* C25 witness: a run has stored today's snapshot of a suppressed ticker that has
\* three or more snapshots in the window, has not flagged it, and has flagged a
\* ticker whose third snapshot in the window is today's.
C25_Witness ==
    /\ outcome = "completed"
    /\ ranOn = day
    /\ \E s \in suppressed \cap TickersOf(feed) :
          /\ s \in TickersOf(highs[day])
          /\ WindowCount(highs, s, Instant(day, tod)) >= TRINITY_MIN_COUNT
          /\ ~Flagged(res, s)
    /\ \E u \in TickersOf(feed) :
          /\ Flagged(res, u)
          /\ WindowCount(highs, u, Instant(day, tod)) = TRINITY_MIN_COUNT

\* ---------------------------------------------------------------- retention
\* C26: the cleanup at the end of a run removes nothing a later run reads: every
\* snapshot file dated within the last TRINITY_WINDOW_DAYS days and every candidate
\* file dated within the last COOLOFF_DAYS days is still stored after the run, as
\* it was; and the run has counted on the store as it was before the cleanup.
C26_RetentionCoversWindows ==
    [][IsRun =>
        /\ \A d \in DOMAIN highs :
              (d >= day - TRINITY_WINDOW_DAYS /\ d # day)
                  => d \in DOMAIN highs' /\ highs'[d] = highs[d]
        /\ \A d \in DOMAIN ledger :
              (d >= day - COOLOFF_DAYS /\ d # day)
                  => d \in DOMAIN ledger' /\ ledger'[d] = ledger[d]
        /\ day \in DOMAIN highs'
        /\ \A t \in Tickers :
              WindowCount(highs', t, Instant(day, tod))
                  = WindowCount(Put(highs, day, highs'[day]), t, Instant(day, tod))
        /\ \A i \in 1..Len(res') :
              res'[i].Trinity =>
                  res'[i].Days_Since_Signal
                      = day - FirstSeen(Put(highs, day, highs'[day]), res'[i].Ticker)]_vars

\* C26 witness: the runs have removed every snapshot file the store started with,
\* and a snapshot file of an earlier run inside the counting window is still stored.
C26_Witness ==
    /\ outcome = "completed"
    /\ ranOn = day
    /\ \A d \in DOMAIN highs : d > TRINITY_WINDOW_DAYS + 2
    /\ \E d \in DOMAIN highs : d < day /\ d >= day - TRINITY_WINDOW_DAYS

\* ---------------------------------------------------------------- EXPIRED stays
\* The candidate records of the ledger that classified t as EXPIRED and whose first
\* snapshot of t (the record's date less its Days_Since_Signal) is still stored.
ExpiredRecords(trinity_files, all_files, t) ==
    {<<d, i>> \in PastRows(trinity_files) :
        LET r == RowAt(trinity_files, <<d, i>>)
        IN  /\ r.Ticker = t
            /\ r.Entry_Status = "EXPIRED"
            /\ (d - r.Days_Since_Signal) \in Listed(all_files, t)}

C28_PatternCount ==
    (pattern # NoPattern /\ Len(bars) >= lookback_days) =>
        LET first == Len(bars) - lookback_days + 1
            counted == {k \in (first + 1)..Len(bars) :
                          \A j \in first..(k - 1) : bars[k] > bars[j]}
            dates == pattern.new_high_dates
        IN  /\ pattern.new_highs_count = Cardinality(counted)
            /\ Len(dates) = pattern.new_highs_count
            /\ {dates[i] : i \in 1..Len(dates)} = counted
            /\ \A i \in 1..(Len(dates) - 1) : dates[i] < dates[i + 1]
            /\ pattern.trinity_signal <=> pattern.new_highs_count >= PATTERN_MIN_HIGHS
            /\ pattern.new_highs_count <= lookback_days - 1

\* C28 witness: a history longer than the lookback whose last three rows each set a
\* new high has been checked: three dates, and the signal.
C28_Witness ==
    /\ Len(bars) > lookback_days
    /\ pattern.trinity_signal
    /\ pattern.new_highs_count = PATTERN_MIN_HIGHS
    /\ pattern.new_high_dates = <<Len(bars) - 2, Len(bars) - 1, Len(bars)>>

EntryStatuses ==
    {"GOOD_ENTRY", "CAUTION", "LATE_STAGE", "EXTENDED_MOVE", "EXPIRED",
     "NO_HISTORY", "PRICE_ERROR", "N/A"}

\* C30: every row of the result of detect_trinity_with_entry_window carries one
\* Entry_Status of the eight, and the status is other than 'N/A' exactly for the
\* rows flagged as Trinity.
C30_StatusOnEveryRow ==
    outcome = "completed" =>
        \A i \in 1..Len(res) :
            /\ res[i].Entry_Status \in EntryStatuses
            /\ res[i].Entry_Status # "N/A" <=> res[i].Trinity

\* C30 witness: a result with a candidate whose first signal date could not be
\* read, NO_HISTORY, next to a row that is not flagged, 'N/A'.
C30_Witness ==
    /\ outcome = "completed"
    /\ \E i \in 1..Len(res) : res[i].Trinity /\ res[i].Entry_Status = "NO_HISTORY"
    /\ \E i \in 1..Len(res) : ~res[i].Trinity /\ res[i].Entry_Status = "N/A"

====
